---- MODULE Spec2Model ----
(***************************************************************************)
(* Symmetry-adapted unrestricted Hartree-Fock (pyscf/scf/uhf_symm.py) and  *)
(* the QM/MM point-charge decoration (future/qmmm/itrf.py).                *)
(*                                                                         *)
(* Orbital energies are integers on a grid of 4e-10 Hartree, so that two   *)
(* different energies can be equal after numpy's round(9).  Spin channel 1 *)
(* is alpha (python index 0), spin channel 2 is beta (python index 1).     *)
(* Orbital k of the model is python index k-1.                             *)
(***************************************************************************)
EXTENDS Integers, Sequences, FiniteSets, TLC

VARIABLES
    pc,           \* position of the run / last call that completed
    err,          \* the exception that ended the call, "" when none
    symmetry,     \* mol.symmetry
    verbose,      \* self.verbose
    nelec,        \* self.nelec = <<neleca, nelecb>>
    irrep_nelec,  \* self.irrep_nelec: irrep name -> <<n>> (an int) or <<na, nb>>
    orbsym,       \* <<orbsyma, orbsymb>>: irrep label of every orbital
    mo_energy,    \* self.mo_energy = <<ea, eb>>
    mo_coeff,     \* self.mo_coeff  = <<ca, cb>>; a column is named by the orbital it holds
                  \* (for canonicalize: by the set of eigenvectors it mixes)
    mo_occ,       \* self.mo_occ    = <<occa, occb>>
    scf,          \* what get_occ was given and returned: [energy, occ], for reference
    nfock,        \* Fock matrices built so far in this run
    cycle,        \* SCF cycles started so far in this run
    kind,         \* "none", or the decorator that produced the QMMM object
    pts,          \* <<len(coords), len(charges)>> captured by the QMMM class
    base,         \* method.__dict__: the values the base method's attributes hold
    deco,         \* QMMM().__dict__: the values the decorated object's attributes hold
    shared,       \* attribute -> TRUE while both objects reference one and the same value
    snap,         \* base as it was when it was decorated, for reference
    hcore,        \* the last get_hcore / grad_nuc call on the QMMM object:
                  \* [call, mol, result, h0, v]
    posthf,       \* the base method is a post-HF object: no get_hcore, but _scf.get_hcore
    layers,       \* <<len(coords), len(charges)>> of the QMMM objects wrapped by the
                  \* outermost one, innermost first
    fock,         \* the Fock matrix given to canonicalize: <<fa, fb>>, the eigenvalue of
                  \* every eigenvector of its blocks
    given,        \* how canonicalize is called: [orbsym |-> mo_coeff carries orbsym,
                  \* fock |-> a Fock matrix is passed (FALSE: fock is None)]
    canon,        \* what the successive canonicalize calls returned, first call first
    e_tot,        \* self.e_tot: <<>> while unset, <<e>> once HF1e.scf has set it
    calls,        \* the calls HF1e.scf has made so far, in order
    counted       \* what get_irrep_nelec returned: <<>> before the call, else the dict

scfvars == <<pc, err, symmetry, verbose, nelec, irrep_nelec, orbsym, mo_energy, mo_coeff, mo_occ,
             scf, nfock, cycle>>
qmvars == <<kind, pts, base, deco, shared, snap, hcore, posthf, layers>>
postvars == <<fock, given, canon, e_tot, calls, counted>>
vars == <<scfvars, qmvars, postvars>>

----------------------------------------------------------------------------
(* Bounds of the model *)

NOrb == 3         \* orbitals per spin channel
MaxE == 2         \* energies are 0..MaxE grid steps
NIrrep == 2       \* irreps of the point group
MaxFix == 1       \* largest per-spin count a map entry asks for
MaxNelec == 2     \* largest electron count per spin

\* logger.INFO, the level from which get_occ reports HOMO and LUMO
LoggerInfo == 4

\* the levels of self.verbose the model tells apart: quiet, and INFO
Verbosities == {0, LoggerInfo}

Spins == {1, 2}
Orbs == 1..NOrb
Irreps == 1..NIrrep

Min(a, b) == IF a < b THEN a ELSE b

RECURSIVE SumSeq(_)
SumSeq(s) == IF s = <<>> THEN 0 ELSE Head(s) + SumSeq(Tail(s))

----------------------------------------------------------------------------
(* numpy helpers *)

\* ndarray.round(9) of an energy of e grid steps (e * 0.4 of the 9th decimal),
\* in units of 1e-9: 0 -> 0, 1 -> 0, 2 -> 1, 3 -> 1, 4 -> 2
Round9(e) == (4 * e + 5) \div 10

RoundSeq(es) == [k \in 1..Len(es) |-> Round9(es[k])]

\* a[idx] for an index array idx
Take(a, idx) == [k \in 1..Len(idx) |-> a[idx[k]]]

\* a[:n] for n >= 0
Prefix(a, n) == SubSeq(a, 1, Min(n, Len(a)))

\* numpy.where(mask)[0]: the indices satisfying the mask, ascending
WhereEq(a, v) == SelectSeq([k \in 1..Len(a) |-> k], LAMBDA k: a[k] = v)
WherePos(a) == SelectSeq([k \in 1..Len(a) |-> k], LAMBDA k: a[k] > 0)
WhereZero(a) == SelectSeq([k \in 1..Len(a) |-> k], LAMBDA k: a[k] = 0)

\* numpy.argsort(keys) with the default kind: every index order that puts the
\* keys in ascending order; the order among equal keys is not specified
ArgSorts(keys) ==
    {p \in [1..Len(keys) -> 1..Len(keys)] :
        /\ \A i, j \in 1..Len(keys) : i # j => p[i] # p[j]
        /\ \A i, j \in 1..Len(keys) : i < j => keys[p[i]] <= keys[p[j]]}

Range(s) == {s[k] : k \in 1..Len(s)}

\* mol.irrep_id / mol.irrep_name in the order the molecule lists them
irrep_id == [i \in 1..NIrrep |-> i]

----------------------------------------------------------------------------
(* UHF.get_occ, symmetry path *)

\* the (alpha, beta) counts a map entry asks for
EntryNelec(v) ==
    IF Len(v) = 1
    THEN <<v[1] - (v[1] \div 2), v[1] \div 2>>
    ELSE <<v[1], v[2]>>

Listed(map, ir) == ir \in DOMAIN map

\* SegChoices with the argsort forgotten: idx[:n]
SegChoicesUnsorted(idx, e, n) == {Range(Prefix(idx, n))}

\* orbitals one segment can end up occupying: idx[argsort(e[idx].round(9))[:n]]
SegChoices(idx, e, n) ==
    {Range(Prefix(Take(idx, p), n)) : p \in ArgSorts(RoundSeq(Take(e, idx)))}

\* the occupied sets the loop over mol.irrep_id can produce for spin s,
\* irreps 1..i done
RECURSIVE FixedOccSets(_, _, _, _, _)
FixedOccSets(i, s, e, sym, map) ==
    IF i = 0 THEN {{}}
    ELSE IF Listed(map, irrep_id[i])
         THEN {a \cup b : a \in FixedOccSets(i-1, s, e, sym, map),
                          b \in SegChoices(WhereEq(sym[s], irrep_id[i]), e[s],
                                           EntryNelec(map[irrep_id[i]])[s])}
         ELSE FixedOccSets(i-1, s, e, sym, map)

\* neleca_fix / nelecb_fix
RECURSIVE NelecFix(_, _, _)
NelecFix(i, s, map) ==
    IF i = 0 THEN 0
    ELSE NelecFix(i-1, s, map)
         + (IF Listed(map, irrep_id[i]) THEN EntryNelec(map[irrep_id[i]])[s] ELSE 0)

NelecFloat(s, map, ne) == ne[s] - NelecFix(NIrrep, s, map)

\* numpy.hstack(idx_ea_left): the orbitals of the unlisted irreps, irrep by irrep
RECURSIVE IdxLeft(_, _, _, _)
IdxLeft(i, s, sym, map) ==
    IF i = 0 THEN <<>>
    ELSE IdxLeft(i-1, s, sym, map)
         \o (IF Listed(map, irrep_id[i]) THEN <<>> ELSE WhereEq(sym[s], irrep_id[i]))

\* len(idx_ea_left) > 0: some irrep is not listed
HasLeft(map) == \E i \in 1..NIrrep : ~Listed(map, irrep_id[i])

FloatOccSets(s, e, sym, map, ne) ==
    IF HasLeft(map)
    THEN SegChoices(IdxLeft(NIrrep, s, sym, map), e[s], NelecFloat(s, map, ne))
    ELSE {{}}

OccVector(S) == [k \in Orbs |-> IF k \in S THEN 1 ELSE 0]

\* every mo_occ[s] the symmetry path can return
SymmOccs(s, e, sym, map, ne) ==
    {OccVector(a \cup b) : a \in FixedOccSets(NIrrep, s, e, sym, map),
                           b \in FloatOccSets(s, e, sym, map, ne)}

----------------------------------------------------------------------------
(* uhf.UHF.get_occ, the path taken when mol.symmetry is off: one global
   ascending sort of the energies of each spin *)

UhfOccs(s, e, ne) ==
    {OccVector(Range(Prefix(p, ne[s]))) : p \in ArgSorts(e[s])}

----------------------------------------------------------------------------------------------------------------------------------------
(* UHF.get_occ *)

\* assert(neleca_float >= 0); assert(nelecb_float >= 0)
GetOccAsserts(map, ne) ==
    /\ NelecFloat(1, map, ne) >= 0
    /\ NelecFloat(2, map, ne) >= 0

\* every mo_occ[s] get_occ can return
GetOccs(s, symm, e, sym, map, ne) ==
    IF symm THEN SymmOccs(s, e, sym, map, ne) ELSE UhfOccs(s, e, ne)

\* the report of get_occ at verbose >= logger.INFO, entered when an alpha orbital
\* is empty: max() over the occupied alpha energies, and, when beta electrons
\* float, max() over the occupied and min() over the empty beta energies, each of
\* which raises ValueError on an empty selection
GetOccLogRaises(v, occ, map, ne) ==
    /\ v >= LoggerInfo
    /\ WhereZero(occ[1]) # <<>>
    /\ \/ WherePos(occ[1]) = <<>>
       \/ /\ NelecFloat(2, map, ne) > 0
          /\ WherePos(occ[2]) = <<>> \/ WhereZero(occ[2]) = <<>>

\* A failed assertion is the error the specification calls InvalidInputError.
GetOcc ==
    /\ pc = "eig"
    /\ IF symmetry /\ ~GetOccAsserts(irrep_nelec, nelec)
       THEN /\ pc' = "error"
            /\ err' = "InvalidInputError"
            /\ UNCHANGED <<mo_occ, scf>>
       ELSE \E oa \in GetOccs(1, symmetry, mo_energy, orbsym, irrep_nelec, nelec),
               ob \in GetOccs(2, symmetry, mo_energy, orbsym, irrep_nelec, nelec) :
               IF symmetry /\ GetOccLogRaises(verbose, <<oa, ob>>, irrep_nelec, nelec)
               THEN /\ pc' = "error"
                    /\ err' = "ValueError"
                    /\ UNCHANGED <<mo_occ, scf>>
               ELSE /\ mo_occ' = <<oa, ob>>
                    /\ scf' = [energy |-> mo_energy, occ |-> <<oa, ob>>]
                    /\ pc' = "occ"
                    /\ err' = ""
    /\ UNCHANGED <<symmetry, verbose, nelec, irrep_nelec, orbsym, mo_energy, mo_coeff, nfock, cycle>>
    /\ UNCHANGED <<qmvars, postvars>>

----------------------------------------------------------------------------
(* UHF._finalize *)

\* SortedBlocks with the virtual block left in its old order
SortedBlocksVirtualAsIs(a, occ, o_sort, v_sort) ==
    Take(Take(a, WherePos(occ)), o_sort) \o Take(a, WhereZero(occ))

\* hstack((a[occ>0][o_sort], a[occ==0][v_sort]))
SortedBlocks(a, occ, o_sort, v_sort) ==
    Take(Take(a, WherePos(occ)), o_sort) \o Take(Take(a, WhereZero(occ)), v_sort)

\* mo_occ[:nocc] = 1; mo_occ[nocc:] = 0 with nocc = int(mo_occ.sum())
CountOcc(occ) == [k \in 1..Len(occ) |-> IF k <= SumSeq(occ) THEN 1 ELSE 0]

\* oa_sort / ob_sort and va_sort / vb_sort
OccSorts(e, occ) == ArgSorts(RoundSeq(Take(e, WherePos(occ))))
VirSorts(e, occ) == ArgSorts(RoundSeq(Take(e, WhereZero(occ))))

\* FinalizeSpin with mo_occ rewritten before the coefficients are rebuilt
FinalizeSpinOccFirst(e, c, occ, o_sort, v_sort) ==
    [energy |-> SortedBlocks(e, occ, o_sort, v_sort),
     coeff  |-> SortedBlocks(c, CountOcc(occ), o_sort, v_sort),
     occ    |-> CountOcc(occ)]

\* one spin channel of _finalize, in the order of the assignments: the energies,
\* then the coefficients (both read the old mo_occ), then mo_occ in place
FinalizeSpin(e, c, occ, o_sort, v_sort) ==
    [energy |-> SortedBlocks(e, occ, o_sort, v_sort),
     coeff  |-> SortedBlocks(c, occ, o_sort, v_sort),
     occ    |-> CountOcc(occ)]

\* every (energy, coeff, occ) _finalize can leave in one spin channel
Finalized(e, c, occ) ==
    {FinalizeSpin(e, c, occ, o_sort, v_sort) :
        o_sort \in OccSorts(e, occ), v_sort \in VirSorts(e, occ)}

Finalize ==
    /\ pc = "occ"
    /\ \E fa \in Finalized(mo_energy[1], mo_coeff[1], mo_occ[1]),
          fb \in Finalized(mo_energy[2], mo_coeff[2], mo_occ[2]) :
          /\ mo_energy' = <<fa.energy, fb.energy>>
          /\ mo_coeff' = <<fa.coeff, fb.coeff>>
          /\ mo_occ' = <<fa.occ, fb.occ>>
    /\ pc' = "done"
    /\ UNCHANGED <<err, symmetry, verbose, nelec, irrep_nelec, orbsym, scf, nfock, cycle>>
    /\ UNCHANGED <<qmvars, postvars>>

----------------------------------------------------------------------------
(* Inputs *)

Energies == [Orbs -> 0..MaxE]
Mirror(e) == [k \in Orbs |-> MaxE - e[k]]
Labellings == [Orbs -> Irreps]
PairEntries == (0..MaxFix) \X (0..MaxFix)
Entries == {<<n>> : n \in 0..(2 * MaxFix)} \cup PairEntries
Maps == UNION {[D -> Entries] : D \in SUBSET Irreps}
PairMaps == UNION {[D -> PairEntries] : D \in SUBSET Irreps}
EmptyMap == [ir \in {} |-> <<0>>]
Identity == [k \in Orbs |-> k]
Zeros == [k \in Orbs |-> 0]
OneLabel == [k \in Orbs |-> 1]

NoCall == [call |-> "none", mol |-> "none", result |-> "none", h0 |-> "none", v |-> <<>>]

\* the QM/MM part is idle
QmIdle ==
    /\ kind = "none"
    /\ pts = <<0, 0>>
    /\ base = <<>>
    /\ deco = <<>>
    /\ shared = <<>>
    /\ snap = <<>>
    /\ hcore = NoCall
    /\ posthf = FALSE
    /\ layers = <<>>

\* nothing has been canonicalized, counted or run as a one-electron system
PostIdle ==
    /\ fock = <<>>
    /\ given = [orbsym |-> TRUE, fock |-> TRUE]
    /\ canon = <<>>
    /\ e_tot = <<>>
    /\ calls = <<>>
    /\ counted = <<>>

(* get_occ called on given energies and labels, then _finalize *)
InitOcc ==
    /\ pc = "eig"
    /\ err = ""
    /\ symmetry \in BOOLEAN
    /\ verbose \in Verbosities
    /\ nelec \in (0..MaxNelec) \X (0..MaxNelec)
    /\ irrep_nelec \in (IF symmetry THEN Maps ELSE {EmptyMap})
    /\ \E l \in (IF symmetry THEN Labellings ELSE {OneLabel}) : orbsym = <<l, l>>
    /\ \E ea \in Energies, flip \in BOOLEAN :
          mo_energy = <<ea, IF flip THEN Mirror(ea) ELSE ea>>
    /\ mo_coeff = <<Identity, Identity>>
    /\ mo_occ = <<Zeros, Zeros>>
    /\ scf = [energy |-> mo_energy, occ |-> mo_occ]
    /\ nfock = 0
    /\ cycle = 0
    /\ QmIdle
    /\ PostIdle

NextOcc == GetOcc \/ Finalize

SpecOcc == InitOcc /\ [][NextOcc]_vars

----------------------------------------------------------------------------
(* One SCF run: build, then cycles of Fock build, eig and get_occ, then
   _finalize *)

MaxCycle == 1     \* SCF cycles of one run

\* hf_symm.check_irrep_nelec(mol, self.irrep_nelec, self.nelec) is called by build
\* and defined in another file: a call either returns or raises, and which of
\* the two it does for a given map is not decided here
CheckIrrepNelecEnds == {"returns", "raises"}

\* UHF.build: on a molecule with symmetry the check is called first, then
\* uhf.UHF.build
Build ==
    /\ pc = "start"
    /\ \E end \in (IF symmetry THEN CheckIrrepNelecEnds ELSE {"returns"}) :
          IF end = "raises"
          THEN pc' = "error" /\ err' = "check_irrep_nelec"
          ELSE pc' = "built" /\ err' = ""
    /\ UNCHANGED <<symmetry, verbose, nelec, irrep_nelec, orbsym, mo_energy, mo_coeff, mo_occ,
                   scf, nfock, cycle>>
    /\ UNCHANGED <<qmvars, postvars>>

\* BuildFock: the first one after build, a later one when the run has not converged
GetFock ==
    /\ pc = "built" \/ (pc = "occ" /\ cycle < MaxCycle)
    /\ pc' = "fock"
    /\ nfock' = nfock + 1
    /\ cycle' = cycle + 1
    /\ UNCHANGED <<err, symmetry, verbose, nelec, irrep_nelec, orbsym, mo_energy, mo_coeff, mo_occ, scf>>
    /\ UNCHANGED <<qmvars, postvars>>

\* what one _eigh per irrep block, stacked block after block in the order of
\* mol.irrep_id, can return for one spin: the energies ascend inside each irrep
EigEnergies(l) ==
    {e \in Energies : \A i, j \in Orbs : (i < j /\ l[i] = l[j]) => e[i] <= e[j]}

\* UHF.eig.  Without symmetry the pair h is handed to self._eigh as if it were
\* one matrix, and the eigensolver, which takes one square matrix, raises
\* ValueError.  With symmetry h[0] and h[1] are diagonalized irrep by irrep,
\* independently of one another.
Eig ==
    /\ pc = "fock"
    /\ IF ~symmetry
       THEN /\ pc' = "error"
            /\ err' = "ValueError"
            /\ UNCHANGED <<mo_energy, mo_coeff>>
       ELSE /\ \E ea \in EigEnergies(orbsym[1]), eb \in EigEnergies(orbsym[2]) :
                  mo_energy' = <<ea, eb>>
            /\ mo_coeff' = <<Identity, Identity>>
            /\ pc' = "eig"
            /\ err' = ""
    /\ UNCHANGED <<symmetry, verbose, nelec, irrep_nelec, orbsym, mo_occ, scf, nfock, cycle>>
    /\ UNCHANGED <<qmvars, postvars>>

\* the labels eig attaches: irrep block after irrep block, in the order of mol.irrep_id
BlockLabellings == {l \in Labellings : \A i, j \in Orbs : i < j => l[i] <= l[j]}

InitRun ==
    /\ pc = "start"
    /\ err = ""
    /\ symmetry \in BOOLEAN
    /\ verbose \in Verbosities
    /\ nelec \in {ne \in (0..MaxNelec) \X (0..MaxNelec) : ne[2] <= ne[1]}
    /\ irrep_nelec \in (IF symmetry THEN Maps ELSE {EmptyMap})
    /\ \E l \in (IF symmetry THEN BlockLabellings ELSE {OneLabel}) : orbsym = <<l, l>>
    /\ mo_energy = <<Zeros, Zeros>>
    /\ mo_coeff = <<Identity, Identity>>
    /\ mo_occ = <<Zeros, Zeros>>
    /\ scf = [energy |-> mo_energy, occ |-> mo_occ]
    /\ nfock = 0
    /\ cycle = 0
    /\ QmIdle
    /\ PostIdle

NextRun == Build \/ GetFock \/ Eig \/ GetOcc \/ Finalize

SpecRun == InitRun /\ [][NextRun]_vars

----------------------------------------------------------------------------
(* mm_charge / mm_charge_grad: the QMMM object made from a method object *)

MaxPts == 3       \* longest coords / charges array

Attrs == {"irrep_nelec", "mo_energy", "mo_coeff", "mo_occ", "verbose"}

\* QMMM.__init__: self.__dict__.update(method.__dict__) copies the references,
\* so every attribute of the new object is the very value the method holds
Decorate(k, nc, nq) ==
    /\ kind = "none"
    /\ kind' = k
    /\ pts' = <<nc, nq>>
    /\ deco' = base
    /\ shared' = [a \in Attrs |-> TRUE]
    /\ snap' = base
    /\ UNCHANGED <<base, hcore, posthf, layers>>
    /\ UNCHANGED <<scfvars, postvars>>

\* mm_charge(method, coords, charges): returns QMMM(), whatever the two lengths
MMCharge == \E nc \in 1..MaxPts, nq \in 1..MaxPts : Decorate("mm_charge", nc, nq)

\* mm_charge_grad(method, coords, charges): returns QMMM(), whatever the two lengths
MMChargeGrad == \E nc \in 1..MaxPts, nq \in 1..MaxPts : Decorate("mm_charge_grad", nc, nq)

\* numpy.einsum over the label the point charges share ('xk,k->x', 'ixk,k->ix',
\* 'i,ix,i->x'): equal lengths contract, a length of 1 is broadcast, any other
\* pair of lengths raises ValueError
Contracts(nc, nq) == nc = nq \/ nc = 1 \/ nq = 1

Evaluate(nc, nq) == IF Contracts(nc, nq) THEN "value" ELSE "ValueError"

\* df.incore.aux_e2(mol, fakemol, ...): the three-center integrals over the
\* basis functions of mol; it reads the atoms and the basis of mol
AuxE2(mol) == IF mol = "None" THEN "AttributeError" ELSE "value"

Raised(e) == [result |-> e, h0 |-> "none", v |-> <<>>]

\* the value the innermost QMMM object starts from: method.get_hcore(mol), which
\* takes the method's own molecule when mol is None; under mm_charge a post-HF
\* object, which has no get_hcore, is asked for method._scf.get_hcore(mol)
BaseHcore(k, ph) ==
    IF ~ph THEN [result |-> "value", h0 |-> "method.get_hcore", v |-> <<>>]
    ELSE IF k = "mm_charge"
         THEN [result |-> "value", h0 |-> "method._scf.get_hcore", v |-> <<>>]
         ELSE Raised("AttributeError")

\* the mol a QMMM.get_hcore works with: mm_charge_grad replaces None by
\* method.mol, mm_charge keeps what it was given
MolOf(k, mol) == IF k = "mm_charge_grad" THEN "mol" ELSE mol

\* one QMMM.get_hcore on top of the value h of the method it wraps: h1e first,
\* then the integrals, then the contraction with the charges
LayerHcore(p, mol, h) ==
    IF h.result # "value" THEN h
    ELSE IF AuxE2(mol) # "value" THEN Raised(AuxE2(mol))
    ELSE IF Evaluate(p[1], p[2]) # "value" THEN Raised(Evaluate(p[1], p[2]))
    ELSE [h EXCEPT !.v = Append(@, p)]

\* get_hcore of the outermost of the QMMM objects ls (innermost first)
RECURSIVE StackHcore(_, _, _, _)
StackHcore(k, ls, mol, ph) ==
    IF ls = <<>> THEN BaseHcore(k, ph)
    ELSE LayerHcore(ls[Len(ls)], MolOf(k, mol),
                    StackHcore(k, SubSeq(ls, 1, Len(ls) - 1), MolOf(k, mol), ph))

\* one QMMM.grad_nuc on top of the value g of the method it wraps
LayerGradNuc(p, g) ==
    IF g.result # "value" THEN g
    ELSE IF Evaluate(p[1], p[2]) # "value" THEN Raised(Evaluate(p[1], p[2]))
    ELSE [g EXCEPT !.v = Append(@, p)]

RECURSIVE StackGradNuc(_)
StackGradNuc(ls) ==
    IF ls = <<>> THEN [result |-> "value", h0 |-> "method.grad_nuc", v |-> <<>>]
    ELSE LayerGradNuc(ls[Len(ls)], StackGradNuc(SubSeq(ls, 1, Len(ls) - 1)))

Called(c, mol, r) == [call |-> c, mol |-> mol, result |-> r.result, h0 |-> r.h0, v |-> r.v]

\* QMMM.get_hcore of either decorator, with a molecule or with the default None
QGetHcore ==
    /\ kind # "none"
    /\ \E mol \in {"None", "mol"} :
          hcore' = Called("get_hcore", mol, StackHcore(kind, Append(layers, pts), mol, posthf))
    /\ UNCHANGED <<posthf, layers, kind, pts, base, deco, shared, snap>>
    /\ UNCHANGED <<scfvars, postvars>>

\* QMMM.grad_nuc of mm_charge_grad
QGradNuc ==
    /\ kind = "mm_charge_grad"
    /\ \E mol \in {"None", "mol"} :
          hcore' = Called("grad_nuc", mol, StackGradNuc(Append(layers, pts)))
    /\ UNCHANGED <<posthf, layers, kind, pts, base, deco, shared, snap>>
    /\ UNCHANGED <<scfvars, postvars>>

MaxLayers == 2    \* QMMM objects wrapped in one another

\* the decorator applied to the QMMM object itself: the new object wraps it, and
\* its __dict__ holds the references the wrapped object's __dict__ holds
Redecorate ==
    /\ kind # "none"
    /\ Len(layers) + 1 < MaxLayers
    /\ \E nc \in 1..MaxPts, nq \in 1..MaxPts :
          /\ layers' = Append(layers, pts)
          /\ pts' = <<nc, nq>>
    /\ hcore' = NoCall
    /\ UNCHANGED <<posthf, kind, base, deco, shared, snap>>
    /\ UNCHANGED <<scfvars, postvars>>

\* qmmm.verbose = v: the attribute of the new object is bound to a new value
QSetVerbose ==
    /\ kind # "none"
    /\ \E v \in Verbosities :
          /\ deco.verbose # v
          /\ deco' = [deco EXCEPT !.verbose = v]
    /\ shared' = [shared EXCEPT !.verbose = FALSE]
    /\ UNCHANGED <<posthf, layers, kind, pts, base, snap, hcore>>
    /\ UNCHANGED <<scfvars, postvars>>

\* d[ir] = v on a dict
DictSet(d, ir, v) == [x \in (DOMAIN d) \cup {ir} |-> IF x = ir THEN v ELSE d[x]]

\* qmmm.irrep_nelec[irname] = (1, 0): the dict is updated in place, as the
\* module's own example does with method.irrep_nelec['A1u'] = (1,0)
QSetIrrepNelec ==
    /\ kind # "none"
    /\ \E ir \in Irreps :
          LET d == DictSet(deco.irrep_nelec, ir, <<1, 0>>) IN
          /\ d # deco.irrep_nelec
          /\ deco' = [deco EXCEPT !.irrep_nelec = d]
          /\ base' = IF shared.irrep_nelec THEN [base EXCEPT !.irrep_nelec = d] ELSE base
    /\ UNCHANGED <<posthf, layers, kind, pts, shared, snap, hcore>>
    /\ UNCHANGED <<scfvars, postvars>>

\* qmmm._finalize(): mo_energy and mo_coeff are bound to new tuples, mo_occ is
\* rewritten in place
QFinalize ==
    /\ kind # "none"
    /\ deco.mo_occ # <<>>
    /\ \E fa \in Finalized(deco.mo_energy[1], deco.mo_coeff[1], deco.mo_occ[1]),
          fb \in Finalized(deco.mo_energy[2], deco.mo_coeff[2], deco.mo_occ[2]) :
          /\ deco' = [deco EXCEPT !.mo_energy = <<fa.energy, fb.energy>>,
                                  !.mo_coeff = <<fa.coeff, fb.coeff>>,
                                  !.mo_occ = <<fa.occ, fb.occ>>]
          /\ base' = IF shared.mo_occ
                     THEN [base EXCEPT !.mo_occ = <<fa.occ, fb.occ>>]
                     ELSE base
    /\ shared' = [shared EXCEPT !.mo_energy = FALSE, !.mo_coeff = FALSE]
    /\ UNCHANGED <<posthf, layers, kind, pts, snap, hcore>>
    /\ UNCHANGED <<scfvars, postvars>>

\* the levels of a one-electron run, lowest first
LadderEnergy == [k \in Orbs |-> Min(k - 1, MaxE)]

\* HF1e.scf on the QMMM object, up to the statement that raises.  The object is
\* left with what the statements before it bound: mo_energy and mo_coeff after
\* eig, mo_occ after get_occ, and mo_occ rewritten in place by _finalize (the
\* array is the run's own by then).  at is the exception, "" when scf returned.
Scf1eOutcomes(k, d, sh, h, symm, sym, ne) ==
    LET e == <<LadderEnergy, LadderEnergy>>
        c == <<Identity, Identity>>
        eigd == [d EXCEPT !.mo_energy = e, !.mo_coeff = c]
        eigsh == [sh EXCEPT !.mo_energy = FALSE, !.mo_coeff = FALSE]
    IN IF h.result # "value"
       THEN {[deco |-> d, shared |-> sh, at |-> h.result]}
       ELSE IF k = "mm_charge_grad"
       THEN \* get_hcore of mm_charge_grad returns the three components of a
            \* gradient, an array (3, nao, nao): eig cannot diagonalize it
            {[deco |-> d, shared |-> sh, at |-> "ValueError"]}
       ELSE IF ~symm
       THEN \* without symmetry eig hands the list [h1e]*2 to self._eigh
            {[deco |-> d, shared |-> sh, at |-> "ValueError"]}
       ELSE IF symm /\ ~GetOccAsserts(d.irrep_nelec, ne)
       THEN {[deco |-> eigd, shared |-> eigsh, at |-> "InvalidInputError"]}
       ELSE UNION {
            IF symm /\ GetOccLogRaises(d.verbose, <<oa, ob>>, d.irrep_nelec, ne)
            THEN {[deco |-> eigd, shared |-> eigsh, at |-> "ValueError"]}
            ELSE IF WherePos(oa) = <<>>
            THEN {[deco |-> [eigd EXCEPT !.mo_occ = <<oa, ob>>],
                   shared |-> [eigsh EXCEPT !.mo_occ = FALSE], at |-> "IndexError"]}
            ELSE {[deco |-> [eigd EXCEPT !.mo_energy = <<fa.energy, fb.energy>>,
                                         !.mo_coeff = <<fa.coeff, fb.coeff>>,
                                         !.mo_occ = <<fa.occ, fb.occ>>],
                   shared |-> [eigsh EXCEPT !.mo_occ = FALSE], at |-> ""] :
                      fa \in Finalized(e[1], c[1], oa), fb \in Finalized(e[2], c[2], ob)} :
            oa \in GetOccs(1, symm, e, sym, d.irrep_nelec, ne),
            ob \in GetOccs(2, symm, e, sym, d.irrep_nelec, ne)}

\* qmmm.scf() of a one-electron method: self.get_hcore(self.mol) is the QMMM
\* get_hcore; the exception that ends the call, if any, is left in err
QScf ==
    /\ kind # "none"
    /\ LET h == StackHcore(kind, Append(layers, pts), "mol", posthf) IN
       /\ hcore' = Called("get_hcore", "mol", h)
       /\ \E o \in Scf1eOutcomes(kind, deco, shared, h, symmetry, orbsym, nelec) :
             /\ deco' = o.deco
             /\ shared' = o.shared
             /\ err' = o.at
    /\ UNCHANGED <<posthf, layers, kind, pts, base, snap>>
    /\ UNCHANGED <<pc, symmetry, verbose, nelec, irrep_nelec, orbsym, mo_energy, mo_coeff,
                   mo_occ, scf, nfock, cycle>>
    /\ UNCHANGED postvars

\* the dicts a method holds when it is decorated: the empty one of __init__, or
\* one entry (na, nb) set by the user
OneEntryMaps == {m \in PairMaps : Cardinality(DOMAIN m) <= 1}

\* a method object before its first run (mo_* are None), or after eig and
\* get_occ of a one-electron run
MethodObjects ==
    {[irrep_nelec |-> m, mo_energy |-> <<>>, mo_coeff |-> <<>>, mo_occ |-> <<>>,
      verbose |-> 0] : m \in OneEntryMaps}
    \cup
    {[irrep_nelec |-> m, mo_energy |-> <<LadderEnergy, LadderEnergy>>,
      mo_coeff |-> <<Identity, Identity>>,
      mo_occ |-> <<OccVector({k}), Zeros>>, verbose |-> 0] :
        m \in OneEntryMaps, k \in Orbs}

InitQm ==
    /\ pc = "start"
    /\ err = ""
    /\ symmetry = TRUE
    /\ verbose = 0
    /\ nelec = <<1, 0>>
    /\ irrep_nelec = EmptyMap
    /\ orbsym = <<OneLabel, OneLabel>>
    /\ mo_energy = <<Zeros, Zeros>>
    /\ mo_coeff = <<Identity, Identity>>
    /\ mo_occ = <<Zeros, Zeros>>
    /\ scf = [energy |-> mo_energy, occ |-> mo_occ]
    /\ nfock = 0
    /\ cycle = 0
    /\ kind = "none"
    /\ pts = <<0, 0>>
    /\ base \in MethodObjects
    /\ deco = <<>>
    /\ shared = <<>>
    /\ snap = <<>>
    /\ hcore = NoCall
    /\ posthf = FALSE
    /\ layers = <<>>
    /\ PostIdle

NextQm ==
    \/ MMCharge
    \/ MMChargeGrad
    \/ QGetHcore
    \/ QGradNuc
    \/ QSetVerbose
    \/ QSetIrrepNelec
    \/ QFinalize
    \/ QScf

SpecQm == InitQm /\ [][NextQm]_vars

(* The Hamiltonian of decorated methods: a mean-field or a post-HF method before
   its first run, decorated once or twice, then asked for get_hcore / grad_nuc *)
InitHcore ==
    /\ pc = "start"
    /\ err = ""
    /\ symmetry = TRUE
    /\ verbose = 0
    /\ nelec = <<1, 0>>
    /\ irrep_nelec = EmptyMap
    /\ orbsym = <<OneLabel, OneLabel>>
    /\ mo_energy = <<Zeros, Zeros>>
    /\ mo_coeff = <<Identity, Identity>>
    /\ mo_occ = <<Zeros, Zeros>>
    /\ scf = [energy |-> mo_energy, occ |-> mo_occ]
    /\ nfock = 0
    /\ cycle = 0
    /\ kind = "none"
    /\ pts = <<0, 0>>
    /\ base = [irrep_nelec |-> EmptyMap, mo_energy |-> <<>>, mo_coeff |-> <<>>,
               mo_occ |-> <<>>, verbose |-> 0]
    /\ deco = <<>>
    /\ shared = <<>>
    /\ snap = <<>>
    /\ hcore = NoCall
    /\ posthf \in BOOLEAN
    /\ layers = <<>>
    /\ PostIdle

NextHcore ==
    \/ MMCharge
    \/ MMChargeGrad
    \/ Redecorate
    \/ QGetHcore
    \/ QGradNuc

SpecHcore == InitHcore /\ [][NextHcore]_vars

----------------------------------------------------------------------------
(* canonicalize.  A column of mo_coeff is named by the eigenvectors of its
   block's Fock matrix that it mixes: a set of one eigenvector, or of several
   when the column is a rotation of them.  An eigenvector is named by an orbital
   index.  A block is what one eig_ call diagonalizes: the occupied or the
   virtual columns of one irrep when the coefficients carry orbsym, all the
   occupied or all the virtual columns otherwise.  orbsym[s][t] is the irrep of
   eigenvector t of spin s, the label of column t when the columns are labelled. *)

MaxApply == 2     \* canonicalize calls in a row

\* occidx = mo_occ == 1
OccIdx(occ) == {k \in Orbs : occ[k] = 1}

\* viridx = ~occidx
VirIdxAll(occ) == Orbs
VirIdx(occ) == Orbs \ OccIdx(occ)

\* idx_ir = orbsym == ir
IrIdx(sym, ir) == {k \in Orbs : sym[k] = ir}

\* the idx of the eig_ calls of one spin, in the order of the calls: for every
\* ir in set(orbsym), idx_ir & occidx, then idx_ir & viridx
RECURSIVE BlocksFrom(_, _, _)
BlocksFrom(ir, sym, occ) ==
    IF ir > NIrrep THEN <<>>
    ELSE (IF ir \in Range(sym)
          THEN <<IrIdx(sym, ir) \cap OccIdx(occ), IrIdx(sym, ir) \cap VirIdx(occ)>>
          ELSE <<>>) \o BlocksFrom(ir + 1, sym, occ)

\* the eigenvectors of energy v among T
Level(T, eps, v) == {u \in T : eps[u] = v}

\* the orders in which n eigenvectors of the span T come out of eigh: by
\* ascending eigenvalue
SortedTags(n, T, eps) ==
    {q \in [1..n -> T] :
        /\ \A i \in 1..n, j \in 1..n : i < j => eps[q[i]] <= eps[q[j]]
        /\ n <= Cardinality(T) => \A i \in 1..n, j \in 1..n : i # j => q[i] # q[j]}

\* e, c = scipy.linalg.eigh(f1), with orb.dot(c): the eigenvalues ascending, each
\* with its eigenvector, or, where eigenvalues are equal, with any rotation of
\* the eigenvectors of that eigenvalue
Eigh(n, T, eps) ==
    {[j \in 1..n |-> [e |-> eps[q[j]], c |-> {q[j]}]] : q \in SortedTags(n, T, eps)}
    \cup
    {[j \in 1..n |-> [e |-> eps[q[j]], c |-> Level(T, eps, eps[q[j]])]] :
        q \in SortedTags(n, T, eps)}

\* the position of index k in the mask idx
Rank(k, idx) == Cardinality({j \in idx : j <= k})

\* eig_ up to its writes: the eigenpairs of the columns mo_coeff[:,idx], one for
\* every index of idx
EigBlock(idx, coeff, eps) ==
    {[k \in idx |-> r[Rank(k, idx)]] :
        r \in Eigh(Cardinality(idx), UNION {coeff[k] : k \in idx}, eps)}

\* es[idx] = e; cs[:,idx] = ...: the eigenpairs are written at the indices of idx
Place(acc, idx, r) ==
    [mo_e |-> [k \in Orbs |-> IF k \in idx THEN r[k].e ELSE acc.mo_e[k]],
     mo |-> [k \in Orbs |-> IF k \in idx THEN r[k].c ELSE acc.mo[k]],
     writes |-> [k \in Orbs |-> acc.writes[k] + (IF k \in idx THEN 1 ELSE 0)]]

\* SymmetrizeCanonicalization that returns the columns as eigh left them
SymmetrizeSkipped(r, idx, eps, ir) == {r}

\* hf_symm._symmetrize_canonicalization_(mf, e, c, s) on the eigenpairs r of one
\* eig_ call: inside every level the columns are replaced by columns of one
\* irrep each, single eigenvectors in some order or, for every irrep of the
\* level, rotations of the level's eigenvectors of that irrep; the energies stay
SymmetrizeCanonicalization(r, idx, eps, ir) ==
    LET n == Cardinality(idx)
        T == UNION {r[k].c : k \in idx}
        Q == {q \in SortedTags(n, T, eps) : \A k \in idx : eps[q[Rank(k, idx)]] = r[k].e}
    IN {[k \in idx |-> [e |-> r[k].e, c |-> {q[Rank(k, idx)]}]] : q \in Q}
       \cup
       {[k \in idx |-> [e |-> r[k].e,
                        c |-> {u \in Level(T, eps, r[k].e) : ir[u] = ir[q[Rank(k, idx)]]}]] :
           q \in Q}

\* the two eig_ of canonicalize up to their writes: the one of the branch for
\* labelled coefficients, and the one of the other branch, which symmetrizes the
\* rotated columns
EigUnder(symmetrized, idx, coeff, eps, ir) ==
    IF symmetrized
    THEN UNION {SymmetrizeCanonicalization(r, idx, eps, ir) : r \in EigBlock(idx, coeff, eps)}
    ELSE EigBlock(idx, coeff, eps)

\* the eig_ calls of one spin, one after the other; a call with an empty idx
\* does nothing
RECURSIVE CanonFold(_, _, _, _, _, _)
CanonFold(bs, symmetrized, coeff, eps, ir, acc) ==
    IF bs = <<>> THEN {acc}
    ELSE IF Head(bs) = {} THEN CanonFold(Tail(bs), symmetrized, coeff, eps, ir, acc)
    ELSE UNION {CanonFold(Tail(bs), symmetrized, coeff, eps, ir, Place(acc, Head(bs), r)) :
                   r \in EigUnder(symmetrized, Head(bs), coeff, eps, ir)}

\* mo = numpy.empty_like(mo_coeff), mo_e = numpy.empty(mo_occ.shape): nothing is
\* written yet
EmptyOut == [mo_e |-> [k \in Orbs |-> -1], mo |-> [k \in Orbs |-> {}],
             writes |-> [k \in Orbs |-> 0]]

\* an entry no eig_ call wrote keeps whatever the allocation held
Unwritten(acc) == {k \in Orbs : acc.writes[k] = 0}

Fill(acc, ge, gc) ==
    [acc EXCEPT !.mo_e = [k \in Orbs |-> IF k \in Unwritten(acc) THEN ge[k] ELSE @[k]],
                !.mo = [k \in Orbs |-> IF k \in Unwritten(acc) THEN gc[k] ELSE @[k]]]

\* the eig_ calls of one spin with their writes: what they can leave in mo_e and
\* mo, with the number of writes at every index
CanonSpin(bs, symmetrized, coeff, eps, ir) ==
    LET written == CanonFold(bs, symmetrized, coeff, eps, ir, EmptyOut)
    IN {Fill(acc, ge, gc) :
           acc \in written,
           ge \in UNION {[Unwritten(a) -> 0..MaxE] : a \in written},
           gc \in UNION {[Unwritten(a) -> {{u} : u \in Orbs}] : a \in written}}

\* the eig_ calls of the branch for unlabelled coefficients: occidx, then viridx
WholeBlocks(occ) == <<OccIdx(occ), VirIdx(occ)>>

\* uhf.canonicalize for one spin, the path of a molecule without symmetry: the
\* occupied and the virtual columns are diagonalized, nothing is labelled
UhfCanonicalize(occ, coeff, eps) ==
    CanonSpin(WholeBlocks(occ), FALSE, coeff, eps, OneLabel)

\* mf.make_rdm1(mo_coeff, mo_occ): the density of a spin is the projector on what
\* its occupied columns span
MakeRdm1(c, occ) == <<UNION {c[1][k] : k \in OccIdx(occ[1])},
                      UNION {c[2][k] : k \in OccIdx(occ[2])}>>

\* mf.get_hcore() + mf.get_veff(mf.mol, dm): the Fock matrix of the density dm.
\* fock is the Fock matrix of the density of the orbitals the first call is
\* given; another density has another Fock matrix.
FockOf(dm) ==
    IF dm = MakeRdm1(mo_coeff, mo_occ) THEN fock ELSE <<Mirror(fock[1]), Mirror(fock[2])>>

\* hf_symm.get_orbsym on the columns c of one spin, without the check: a column
\* gets the irrep of the eigenvectors it is made of, one of their irreps when
\* it mixes several
OrbsymsOf(c, ir) == {l \in [Orbs -> Irreps] : \A k \in Orbs : l[k] \in {ir[u] : u \in c[k]}}

\* what one call returns: mo_e, and mo with the labels attached
Returned(ra, rb, lab) ==
    [mo_e |-> <<ra.mo_e, rb.mo_e>>, mo |-> <<ra.mo, rb.mo>>, orbsym |-> lab,
     writes |-> <<ra.writes, rb.writes>>]

\* canonicalize(mf, mo_coeff, mo_occ, fock): the first call is given self.mo_coeff,
\* the next one what the call before returned, each with the same mo_occ and the
\* same fock argument; mo_occ is only read.  lab is the orbsym the coefficients
\* carry, <<>> when they carry none.
Canonicalize ==
    /\ pc = "done"
    /\ Len(canon) < MaxApply
    /\ LET cin == IF canon = <<>> THEN mo_coeff ELSE canon[Len(canon)].mo
           lab == IF canon = <<>>
                  THEN (IF given.orbsym THEN orbsym ELSE <<>>)
                  ELSE canon[Len(canon)].orbsym
           f == IF given.fock THEN fock ELSE FockOf(MakeRdm1(cin, mo_occ))
       IN IF ~symmetry
          THEN \E ra \in UhfCanonicalize(mo_occ[1], cin[1], f[1]),
                  rb \in UhfCanonicalize(mo_occ[2], cin[2], f[2]) :
                  canon' = Append(canon, Returned(ra, rb, <<>>))
          ELSE IF lab # <<>>
          THEN \E ra \in CanonSpin(BlocksFrom(1, lab[1], mo_occ[1]), FALSE, cin[1], f[1],
                                   orbsym[1]),
                  rb \in CanonSpin(BlocksFrom(1, lab[2], mo_occ[2]), FALSE, cin[2], f[2],
                                   orbsym[2]) :
                  canon' = Append(canon, Returned(ra, rb, lab))
          ELSE \E ra \in CanonSpin(WholeBlocks(mo_occ[1]), TRUE, cin[1], f[1], orbsym[1]),
                  rb \in CanonSpin(WholeBlocks(mo_occ[2]), TRUE, cin[2], f[2], orbsym[2]) :
                  \E la \in OrbsymsOf(ra.mo, orbsym[1]), lb \in OrbsymsOf(rb.mo, orbsym[2]) :
                     canon' = Append(canon, Returned(ra, rb, <<la, lb>>))
    /\ UNCHANGED <<fock, given, e_tot, calls, counted>>
    /\ UNCHANGED <<scfvars, qmvars>>

\* the coefficients canonicalize can be given for labels sym and occupation occ:
\* in every block the columns are the block's eigenvectors in some order, or
\* rotations of them
CanonInputs(sym, occ) ==
    {c \in [Orbs -> (SUBSET Orbs) \ {{}}] :
        \A i \in 1..Len(BlocksFrom(1, sym, occ)) :
            LET idx == BlocksFrom(1, sym, occ)[i] IN
            idx # {} =>
                /\ UNION {c[k] : k \in idx} = idx
                /\ \/ \A k \in idx : Cardinality(c[k]) = 1
                   \/ \A k \in idx : c[k] = idx}

Occupations == [Orbs -> {0, 1}]

(* canonicalize called on orbitals with labels, once and then on its own output *)
InitCanon ==
    /\ pc = "done"
    /\ err = ""
    /\ symmetry = TRUE
    /\ verbose = 0
    /\ irrep_nelec = EmptyMap
    /\ \E l \in Labellings : orbsym = <<l, l>>
    /\ \E oa \in Occupations :
          /\ mo_occ = <<oa, oa>>
          /\ nelec = <<SumSeq(oa), SumSeq(oa)>>
    /\ \E c \in CanonInputs(orbsym[1], mo_occ[1]) : mo_coeff = <<c, c>>
    /\ mo_energy = <<Zeros, Zeros>>
    /\ scf = [energy |-> mo_energy, occ |-> mo_occ]
    /\ nfock = 0
    /\ cycle = 0
    /\ QmIdle
    /\ \E fa \in Energies, flip \in BOOLEAN : fock = <<fa, IF flip THEN Mirror(fa) ELSE fa>>
    /\ given = [orbsym |-> TRUE, fock |-> TRUE]
    /\ canon = <<>>
    /\ e_tot = <<>>
    /\ calls = <<>>
    /\ counted = <<>>

NextCanon == Canonicalize

SpecCanon == InitCanon /\ [][NextCanon]_vars

(* canonicalize called once and then on its own output, in every way it can be
   called: on a molecule with or without symmetry, on coefficients with or
   without orbsym, with a Fock matrix or with fock=None *)
InitCanonAny ==
    /\ pc = "done"
    /\ err = ""
    /\ symmetry \in BOOLEAN
    /\ verbose = 0
    /\ irrep_nelec = EmptyMap
    /\ \E l \in (IF symmetry THEN Labellings ELSE {OneLabel}) : orbsym = <<l, l>>
    /\ \E o \in (IF symmetry THEN BOOLEAN ELSE {FALSE}), f \in BOOLEAN :
          given = [orbsym |-> o, fock |-> f]
    /\ \E oa \in Occupations :
          /\ mo_occ = <<oa, oa>>
          /\ nelec = <<SumSeq(oa), SumSeq(oa)>>
    /\ \E c \in CanonInputs(IF given.orbsym THEN orbsym[1] ELSE OneLabel, mo_occ[1]) :
          mo_coeff = <<c, c>>
    /\ mo_energy = <<Zeros, Zeros>>
    /\ scf = [energy |-> mo_energy, occ |-> mo_occ]
    /\ nfock = 0
    /\ cycle = 0
    /\ QmIdle
    /\ \E fa \in Energies : fock = <<fa, fa>>
    /\ canon = <<>>
    /\ e_tot = <<>>
    /\ calls = <<>>
    /\ counted = <<>>

SpecCanonAny == InitCanonAny /\ [][NextCanon]_vars

----------------------------------------------------------------------------
(* HF1e.scf: the run of a one-electron system, statement by statement.  It does
   not call build, so irrep_nelec reaches get_occ unchecked. *)

\* self.mol.energy_nuc(), in grid steps
EnergyNuc == 1

\* h1e = self.get_hcore(self.mol); s1e = self.get_ovlp(self.mol)
Scf1eIntegrals ==
    /\ pc = "start"
    /\ calls = <<>>
    /\ calls' = <<"get_hcore", "get_ovlp">>
    /\ pc' = "1e:h1e"
    /\ UNCHANGED <<fock, given, canon, e_tot, counted>>
    /\ UNCHANGED <<err, symmetry, verbose, nelec, irrep_nelec, orbsym, mo_energy, mo_coeff, mo_occ,
                   scf, nfock, cycle>>
    /\ UNCHANGED qmvars

\* self.mo_energy, self.mo_coeff = self.eig([h1e]*2, s1e).  Without symmetry eig
\* hands the two-element list to self._eigh and the eigensolver raises
\* ValueError before anything is bound.  With symmetry it is one matrix for both
\* spins, so both spins get the same energies.
Scf1eEig ==
    /\ pc = "1e:h1e"
    /\ calls' = Append(calls, "eig")
    /\ IF ~symmetry
       THEN /\ pc' = "error"
            /\ err' = "ValueError"
            /\ UNCHANGED <<mo_energy, mo_coeff>>
       ELSE /\ \E ea \in EigEnergies(orbsym[1]) : mo_energy' = <<ea, ea>>
            /\ mo_coeff' = <<Identity, Identity>>
            /\ pc' = "1e:eig"
            /\ err' = ""
    /\ UNCHANGED <<fock, given, canon, e_tot, counted>>
    /\ UNCHANGED <<symmetry, verbose, nelec, irrep_nelec, orbsym, mo_occ, scf, nfock, cycle>>
    /\ UNCHANGED qmvars

\* self.mo_occ = self.get_occ(self.mo_energy, self.mo_coeff)
Scf1eGetOcc ==
    /\ pc = "1e:eig"
    /\ calls' = Append(calls, "get_occ")
    /\ IF symmetry /\ ~GetOccAsserts(irrep_nelec, nelec)
       THEN /\ pc' = "error"
            /\ err' = "InvalidInputError"
            /\ UNCHANGED <<mo_occ, scf>>
       ELSE \E oa \in GetOccs(1, symmetry, mo_energy, orbsym, irrep_nelec, nelec),
               ob \in GetOccs(2, symmetry, mo_energy, orbsym, irrep_nelec, nelec) :
               IF symmetry /\ GetOccLogRaises(verbose, <<oa, ob>>, irrep_nelec, nelec)
               THEN /\ pc' = "error"
                    /\ err' = "ValueError"
                    /\ UNCHANGED <<mo_occ, scf>>
               ELSE /\ mo_occ' = <<oa, ob>>
                    /\ scf' = [energy |-> mo_energy, occ |-> <<oa, ob>>]
                    /\ pc' = "1e:occ"
                    /\ err' = ""
    /\ UNCHANGED <<fock, given, canon, e_tot, counted>>
    /\ UNCHANGED <<symmetry, verbose, nelec, irrep_nelec, orbsym, mo_energy, mo_coeff, nfock, cycle>>
    /\ UNCHANGED qmvars

\* self.mo_energy[0][self.mo_occ[0]>0][0]
FirstOccupied(e, occ) == Take(e[1], WherePos(occ[1]))[1]

\* self.e_tot = self.mo_energy[0][self.mo_occ[0]>0][0] + self.mol.energy_nuc():
\* indexing an empty selection raises IndexError
Scf1eEtot ==
    /\ pc = "1e:occ"
    /\ calls' = Append(calls, "e_tot")
    /\ IF WherePos(mo_occ[1]) = <<>>
       THEN /\ pc' = "error"
            /\ err' = "IndexError"
            /\ UNCHANGED e_tot
       ELSE /\ e_tot' = <<FirstOccupied(mo_energy, mo_occ) + EnergyNuc>>
            /\ pc' = "1e:etot"
            /\ UNCHANGED err
    /\ UNCHANGED <<fock, given, canon, counted>>
    /\ UNCHANGED <<symmetry, verbose, nelec, irrep_nelec, orbsym, mo_energy, mo_coeff, mo_occ,
                   scf, nfock, cycle>>
    /\ UNCHANGED qmvars

\* self._finalize(), then return self.e_tot
Scf1eFinalize ==
    /\ pc = "1e:etot"
    /\ \E fa \in Finalized(mo_energy[1], mo_coeff[1], mo_occ[1]),
          fb \in Finalized(mo_energy[2], mo_coeff[2], mo_occ[2]) :
          /\ mo_energy' = <<fa.energy, fb.energy>>
          /\ mo_coeff' = <<fa.coeff, fb.coeff>>
          /\ mo_occ' = <<fa.occ, fb.occ>>
    /\ calls' = Append(calls, "_finalize")
    /\ pc' = "1e:done"
    /\ UNCHANGED <<fock, given, canon, e_tot, counted>>
    /\ UNCHANGED <<err, symmetry, verbose, nelec, irrep_nelec, orbsym, scf, nfock, cycle>>
    /\ UNCHANGED qmvars

(* HF1e(mol).scf() for one alpha electron, with whatever irrep_nelec the caller
   has set *)
Init1e ==
    /\ pc = "start"
    /\ err = ""
    /\ symmetry \in BOOLEAN
    /\ verbose \in Verbosities
    /\ nelec = <<1, 0>>
    /\ irrep_nelec \in (IF symmetry THEN Maps ELSE {EmptyMap})
    /\ \E l \in (IF symmetry THEN BlockLabellings ELSE {OneLabel}) : orbsym = <<l, l>>
    /\ mo_energy = <<Zeros, Zeros>>
    /\ mo_coeff = <<Identity, Identity>>
    /\ mo_occ = <<Zeros, Zeros>>
    /\ scf = [energy |-> mo_energy, occ |-> mo_occ]
    /\ nfock = 0
    /\ cycle = 0
    /\ QmIdle
    /\ PostIdle

Next1e == Scf1eIntegrals \/ Scf1eEig \/ Scf1eGetOcc \/ Scf1eEtot \/ Scf1eFinalize

Spec1e == Init1e /\ [][Next1e]_vars

----------------------------------------------------------------------------
(* get_irrep_nelec on the occupation get_occ returned *)

\* int(sum(mo_occ[s][orbsym == ir]))
IrrepCount(occ, sym, ir) == SumSeq(Take(occ, WhereEq(sym, ir)))

\* get_irrep_nelec(mol, mo_coeff, mo_occ) for coefficients that carry orbsym: a
\* dict with one key for every irrep of mol.irrep_id
GetIrrepNelec ==
    /\ pc = "occ"
    /\ symmetry
    /\ counted' = [ir \in Irreps |-> <<IrrepCount(mo_occ[1], orbsym[1], irrep_id[ir]),
                                       IrrepCount(mo_occ[2], orbsym[2], irrep_id[ir])>>]
    /\ pc' = "counted"
    /\ UNCHANGED <<fock, given, canon, e_tot, calls>>
    /\ UNCHANGED <<err, symmetry, verbose, nelec, irrep_nelec, orbsym, mo_energy, mo_coeff, mo_occ,
                   scf, nfock, cycle>>
    /\ UNCHANGED qmvars

NextIrrep == GetOcc \/ GetIrrepNelec

SpecIrrep == InitOcc /\ [][NextIrrep]_vars

----------------------------------------------------------------------------
(* Vocabulary of the properties *)

\* get_occ has returned an occupation on the symmetry path
SymmOccReturned == pc = "occ" /\ symmetry

OrbsOf(s, ir) == {k \in Orbs : orbsym[s][k] = ir}
ListedIrreps == {ir \in Irreps : Listed(irrep_nelec, ir)}
PoolOrbs(s) == {k \in Orbs : orbsym[s][k] \notin ListedIrreps}
OccIn(s, S) == {k \in S : mo_occ[s][k] = 1}

\* within S no empty orbital lies strictly below an occupied one, by the key
LowestBy(s, S, key(_)) ==
    \A i, j \in S :
        (mo_occ[s][i] = 1 /\ mo_occ[s][j] = 0) => key(scf.energy[s][i]) <= key(scf.energy[s][j])

Raw(e) == e

\* argsort left tied keys in index order in this call: among the candidates idx
\* (in the order they were handed to argsort) a later one is never occupied
\* while an earlier one with the same rounded energy is left empty
TiesInOrder(s, idx) ==
    \A a, b \in 1..Len(idx) :
        (a < b /\ Round9(scf.energy[s][idx[a]]) = Round9(scf.energy[s][idx[b]])
            /\ mo_occ[s][idx[b]] = 1)
        => mo_occ[s][idx[a]] = 1

\* the outcome of get_occ is the one a sort that keeps tied keys in index order
\* gives (what numpy's default sort does on arrays this short)
GetOccTiesInOrder ==
    \A s \in Spins :
        /\ \A ir \in ListedIrreps : TiesInOrder(s, WhereEq(orbsym[s], ir))
        /\ TiesInOrder(s, IdxLeft(NIrrep, s, orbsym, irrep_nelec))

\* the same for the four argsort calls of _finalize (the columns start out as
\* 1..NOrb, so a column's name is the index its orbital had)
FinalizeTiesInOrder ==
    \A s \in Spins : \A k, l \in Orbs :
        (k < l /\ mo_occ[s][k] = mo_occ[s][l]
            /\ Round9(mo_energy[s][k]) = Round9(mo_energy[s][l]))
        => mo_coeff[s][k] < mo_coeff[s][l]

----------------------------------------------------------------------------
(* C1: every occupation get_occ returns on a symmetric molecule holds exactly
   nelec[spin] electrons in each spin channel. *)
C1_SumIsNelec ==
    SymmOccReturned => \A s \in Spins : SumSeq(mo_occ[s]) = nelec[s]

(* C3: for every irrep listed in irrep_nelec, asking for (na, nb), the occupied
   orbitals of that irrep are exactly the na (alpha) and nb (beta) orbitals of
   the irrep that are lowest in energy rounded to 9 decimals. *)
C3_ListedIrrepLowest ==
    SymmOccReturned =>
        \A s \in Spins : \A ir \in ListedIrreps :
            /\ Cardinality(OccIn(s, OrbsOf(s, ir))) = EntryNelec(irrep_nelec[ir])[s]
            /\ LowestBy(s, OrbsOf(s, ir), Round9)

(* C4: the floating electrons of each spin sit only on orbitals of unlisted
   irreps: exactly nelec[spin] - fixed of the pooled orbitals are occupied, and
   they are the lowest of the pool in rounded energy. *)
C4_FloatingLowest ==
    SymmOccReturned =>
        \A s \in Spins :
            /\ Cardinality(OccIn(s, PoolOrbs(s))) = NelecFloat(s, irrep_nelec, nelec)
            /\ LowestBy(s, PoolOrbs(s), Round9)

(* C5 as stated: with an empty map the symmetry path occupies exactly the
   orbitals that come first in one global ascending sort of the energies, as
   the path without symmetry does.  Read on the outcomes in which argsort
   keeps tied keys in index order. *)
C5_SameAsGlobalSort ==
    (SymmOccReturned /\ irrep_nelec = EmptyMap /\ GetOccTiesInOrder) =>
        \A s \in Spins : mo_occ[s] \in UhfOccs(s, scf.energy, nelec)

(* C5 amended: with an empty map the symmetry path occupies nelec[spin]
   orbitals that are lowest in energy rounded to 9 decimals; it differs from
   the global sort of the energies only in the choice among orbitals whose
   energies agree after rounding. *)
C5_LowestRounded ==
    (SymmOccReturned /\ irrep_nelec = EmptyMap) =>
        \A s \in Spins :
            /\ SumSeq(mo_occ[s]) = nelec[s]
            /\ LowestBy(s, Orbs, Round9)
            /\ \A i, j \in Orbs :
                  (mo_occ[s][i] = 1 /\ mo_occ[s][j] = 0
                      /\ scf.energy[s][j] < scf.energy[s][i])
                  => Round9(scf.energy[s][j]) = Round9(scf.energy[s][i])

C5_Witness ==
    /\ SymmOccReturned
    /\ irrep_nelec = EmptyMap
    /\ nelec = <<2, 1>>
    /\ orbsym[1] = <<2, 1, 2>>
    /\ Round9(mo_energy[1][1]) > Round9(mo_energy[1][2])
    /\ mo_occ[1] = <<0, 1, 1>>

\* two orbitals that compete in one argsort call and tie after rounding
SameSegment(s, i, j) ==
    \/ orbsym[s][i] = orbsym[s][j] /\ orbsym[s][i] \in ListedIrreps
    \/ i \in PoolOrbs(s) /\ j \in PoolOrbs(s)

(* C6: among orbitals of one spin that tie after rounding and compete for the
   same electrons (inside a mapped irrep or inside the floating pool), the one
   with the lower original index is occupied first.  Read on the outcomes in
   which argsort keeps tied keys in index order. *)
C6_TieLowestIndexFirst ==
    (SymmOccReturned /\ GetOccTiesInOrder) =>
        \A s \in Spins : \A i, j \in Orbs :
            (i < j /\ SameSegment(s, i, j)
                /\ Round9(scf.energy[s][i]) = Round9(scf.energy[s][j])
                /\ mo_occ[s][j] = 1)
            => mo_occ[s][i] = 1

\* mo_occ[s] is nocc ones followed by zeros, nocc the count before _finalize
OnesThenZeros(s) ==
    \A k \in Orbs : mo_occ[s][k] = (IF k <= SumSeq(scf.occ[s]) THEN 1 ELSE 0)

\* the keys of the energies ascend inside the occupied and inside the virtual block
BlocksAscend(s, key(_)) ==
    \A i, j \in Orbs :
        (i < j /\ mo_occ[s][i] = mo_occ[s][j]) => key(mo_energy[s][i]) <= key(mo_energy[s][j])

(* C7 as stated: after _finalize mo_occ is nocc ones then zeros, nocc unchanged,
   and mo_energy ascends inside the occupied block and inside the virtual block.
   Read on the outcomes in which argsort keeps tied keys in index order. *)
C7_BlocksAscendExactly ==
    (pc = "done" /\ FinalizeTiesInOrder) => \A s \in Spins : OnesThenZeros(s) /\ BlocksAscend(s, Raw)

(* C7 amended: after _finalize mo_occ is nocc ones then zeros, nocc unchanged,
   and mo_energy rounded to 9 decimals ascends inside the occupied block and
   inside the virtual block. *)
C7_BlocksAscendRounded ==
    pc = "done" => \A s \in Spins : OnesThenZeros(s) /\ BlocksAscend(s, Round9)

C7_Witness ==
    /\ pc = "done"
    /\ scf.occ[1] = <<0, 1, 1>>
    /\ scf.energy[1] = <<0, 2, 0>>
    /\ mo_energy[1] = <<0, 2, 0>>
    /\ mo_occ[1] = <<1, 1, 0>>

(* C8: after _finalize, position k of mo_energy, column k of mo_coeff and
   position k of mo_occ belong to one and the same orbital of the set
   _finalize was given, in both spin channels; the columns are a permutation
   of the old ones, so the occupied orbitals are the same as before. *)
C8_OnePermutation ==
    pc = "done" =>
        \A s \in Spins :
            /\ Range(mo_coeff[s]) = Orbs
            /\ \A k \in Orbs :
                  /\ mo_energy[s][k] = scf.energy[s][mo_coeff[s][k]]
                  /\ mo_occ[s][k] = scf.occ[s][mo_coeff[s][k]]

C8_Witness ==
    /\ pc = "done"
    /\ scf.occ[1] = <<0, 1, 1>>
    /\ mo_coeff[1] = <<3, 2, 1>>
    /\ mo_coeff[2] # Identity

(* C9: once a method has been decorated, whatever is done to the returned
   object, every attribute of the original method keeps the value it had when
   it was decorated. *)
C9_BaseUntouched ==
    kind # "none" => base = snap

(* C10: when the number of coordinates differs from the number of charges, no
   get_hcore or grad_nuc of the returned object ever evaluates to a value. *)
C10_MismatchNeverEvaluates ==
    (kind # "none" /\ pts[1] # pts[2]) => hcore.result # "value"

----------------------------------------------------------------------------
\* every QMMM object of the stack was given as many charges as coordinates
WellFormedCharges == \A i \in 1..Len(Append(layers, pts)) :
                        Append(layers, pts)[i][1] = Append(layers, pts)[i][2]

(* C11: every get_hcore call on the object returned by mm_charge, with a
   molecule or with the default mol=None, returns the base core Hamiltonian
   (method.get_hcore, or method._scf.get_hcore for a post-HF object) plus the
   V_mm of every decoration, so a decorated decorated method gives
   H0 + V_mm1 + V_mm2. *)
C11_HcoreIsBasePlusVmm ==
    (kind = "mm_charge" /\ hcore.call = "get_hcore" /\ WellFormedCharges)
        => /\ hcore.result = "value"
           /\ hcore.h0 = (IF posthf THEN "method._scf.get_hcore" ELSE "method.get_hcore")
           /\ hcore.v = Append(layers, pts)

----------------------------------------------------------------------------
\* orbitals i and j of spin s are in one block of canonicalize
SameBlock(s, i, j) ==
    /\ orbsym[s][i] = orbsym[s][j]
    /\ (mo_occ[s][i] = 1) <=> (mo_occ[s][j] = 1)

\* the label the output out attaches to column k, 0 when it attaches none
OutLabel(out, s, k) == IF out.orbsym = <<>> THEN 0 ELSE out.orbsym[s][k]

\* what the columns of k's irrep and occupation with k's energy span in the
\* output out
LevelSpan(out, s, k) ==
    UNION {out.mo[s][j] : j \in {x \in Orbs : /\ OutLabel(out, s, x) = OutLabel(out, s, k)
                                             /\ (mo_occ[s][x] = 1) <=> (mo_occ[s][k] = 1)
                                             /\ out.mo_e[s][x] = out.mo_e[s][k]}}

\* the coefficients the i-th canonicalize call was given
CanonInput(i) == IF i = 1 THEN mo_coeff ELSE canon[i - 1].mo

(* C12: canonicalize is idempotent and keeps occupation: for any mo_coeff (with
   or without orbsym), mo_occ and Fock matrix (passed, or fock=None), on a
   molecule with or without symmetry, applied to its own output with the same
   mo_occ and Fock matrix it returns the same mo_energy and the same irrep label
   for every orbital (the label the coefficients came with, when they came with
   labels), coefficients that differ at most by a rotation inside a degenerate
   subspace, and mo_occ is the one passed in. *)
C12_CanonicalizeIdempotent ==
    \A i \in 2..Len(canon) :
        /\ canon[i].mo_e = canon[1].mo_e
        /\ canon[i].orbsym = canon[1].orbsym
        /\ (symmetry /\ given.orbsym) => canon[1].orbsym = orbsym
        /\ \A s \in Spins, k \in Orbs : LevelSpan(canon[i], s, k) = LevelSpan(canon[1], s, k)
        /\ mo_occ = scf.occ

\* two calls with fock=None were made on coefficients without orbsym that were
\* not canonical: the first call changed them and labelled them with two
\* irreps, the second, on the labelled output, returned another rotation of a
\* degenerate pair
C12_Witness ==
    /\ Len(canon) = 2
    /\ symmetry
    /\ ~given.orbsym
    /\ ~given.fock
    /\ canon[1].mo # mo_coeff
    /\ canon[2].mo # canon[1].mo
    /\ \E j \in Orbs, k \in Orbs : canon[1].orbsym[1][j] # canon[1].orbsym[1][k]
    /\ \E k \in Orbs : mo_occ[1][k] = 1
    /\ \E k \in Orbs : mo_occ[1][k] = 0

(* C15: in the branch of canonicalize for labelled coefficients the blocks
   (spin, irrep, occupied or virtual) partition the orbital indices: every index
   is written exactly once, the column written at an index is made of input
   columns of the index's own block, its energy is the energy of that column,
   and every orbital keeps its irrep label and its occupied or virtual status. *)
C15_BlocksPartition ==
    \A i \in 1..Len(canon) : \A s \in Spins, k \in Orbs :
        /\ canon[i].writes[s][k] = 1
        /\ canon[i].mo[s][k] \subseteq
               UNION {CanonInput(i)[s][j] : j \in {x \in Orbs : SameBlock(s, x, k)}}
        /\ \A u \in canon[i].mo[s][k] : /\ SameBlock(s, u, k)
                                        /\ fock[s][u] = canon[i].mo_e[s][k]
        /\ canon[i].orbsym = orbsym
        /\ mo_occ = scf.occ

\* one call on orbitals of two irreps, some occupied and some virtual, that
\* changed the coefficients
C15_Witness ==
    /\ Len(canon) = 1
    /\ \E j \in Orbs, k \in Orbs : orbsym[1][j] # orbsym[1][k]
    /\ \E j \in Orbs, k \in Orbs : mo_occ[1][j] = 1 /\ mo_occ[1][k] = 0
    /\ canon[1].mo[1] # mo_coeff[1]

----------------------------------------------------------------------------
\* the statements of HF1e.scf, in order
Statements1e == <<"get_hcore", "get_ovlp", "eig", "get_occ", "e_tot", "_finalize">>

IsPrefix(a, b) == Len(a) <= Len(b) /\ a = SubSeq(b, 1, Len(a))

(* C13: HF1e.scf makes exactly one diagonalization, of the core Hamiltonian for
   both spins, then one occupation resolution, then sets e_tot to the energy of
   the single occupied alpha orbital plus the nuclear repulsion, then runs
   _finalize, with no Fock or density build; e_tot is the energy of the orbital
   marked occupied after _finalize (plus the nuclear repulsion). *)
C13_OneDiagonalizationThenEtot ==
    /\ IsPrefix(calls, Statements1e)
    /\ nfock = 0
    /\ err \notin {"IndexError", "ValueError"}
    /\ pc \in {"1e:eig", "1e:occ", "1e:etot"} => mo_energy[1] = mo_energy[2]
    /\ pc = "1e:done" =>
          /\ calls = Statements1e
          /\ \E k \in Orbs : /\ \A j \in Orbs : mo_occ[1][j] = 1 <=> j = k
                             /\ e_tot = <<mo_energy[1][k] + EnergyNuc>>

----------------------------------------------------------------------------
\* the counts of one spin, summed over the keys of a get_irrep_nelec result
RECURSIVE CountedSum(_, _, _)
CountedSum(d, s, ir) == IF ir = 0 THEN 0 ELSE d[ir][s] + CountedSum(d, s, ir - 1)

(* C14: round trip between irrep_nelec and get_irrep_nelec: on the occupation
   get_occ produced under the map irrep_nelec, with the same labels,
   get_irrep_nelec returns one entry per irrep of the molecule, exactly the
   (alpha, beta) counts of the map for every irrep the map lists, and counts that
   sum over the irreps to sum(mo_occ[0]) and sum(mo_occ[1]). *)
C14_RoundTrip ==
    pc = "counted" =>
        /\ DOMAIN counted = Irreps
        /\ \A ir \in DOMAIN irrep_nelec : counted[ir] = EntryNelec(irrep_nelec[ir])
        /\ \A s \in Spins : CountedSum(counted, s, NIrrep) = SumSeq(mo_occ[s])

====
